---- MODULE Spec2Model ----
(***************************************************************************)
(* Model of the homematch pipeline.                                        *)
(*   - the preference interview (src/src/search/search.py): the            *)
(*     PropertyPreferenceCollector dialog state machine, its confirmation  *)
(*     summary and the query synthesis guard, specification Spec;          *)
(*   - the vector store (src/src/vector_store/store.py): load-or-rebuild   *)
(*     setup over the persisted collection and semantic search,            *)
(*     specification SpecStore;                                            *)
(*   - the personalizer (src/src/personalization/personalize.py): the      *)
(*     per-result rewrite with its fallback and the highlight checks,      *)
(*     specification SpecPersonalizer;                                     *)
(*   - the loop of main (SpecMain) and one persona run of the demo         *)
(*     (src/src/demo.py, SpecDemo), which chain the three.                 *)
(*                                                                         *)
(* Text.  A Python str is modelled as a sequence of atoms.  User input is  *)
(* a sequence of single characters, so that lower(), the "in" test and     *)
(* strip() are computed character by character.  A string literal of the   *)
(* source whose inside the code never inspects is kept as one atom         *)
(* (<<"Great! What's your budget range?">>); the line feed of a literal is *)
(* always the separate atom "\n".  String concatenation is \o.             *)
(***************************************************************************)
EXTENDS Integers, Sequences, FiniteSets, TLC

VARIABLES
    state,                  \* self.state
    preferences,            \* self.preferences (BuyerPreferences)
    conversation_history,   \* self.conversation_history
    outcome,                \* how the last call ended: value returned or exception raised
    llm_called,             \* whether the last call invoked the text-generation chain
    llm_request,            \* the inputs the last call handed to chain.invoke, if it did
    writes,                 \* per field, number of assignments since construction/reset
    vectorstore,            \* PropertyVectorStore.vectorstore: None or a Chroma handle
    collection,             \* documents of the persisted collection "london_properties", in insertion order
    corpus,                 \* what data/listings.json holds
    distance,               \* embedding distance of each listing text to the query text
    store_call,             \* the last call made on the store and what it touched
    loaded_ok,              \* a load or ingest has reported success on this store object
    search_results,         \* the search_results argument of personalize_listings
    personalized_listings,  \* the list personalize_listings returned
    personalize_call        \* the last call made on the personalizer and the rewrites that raised in it

collectorVars == <<state, preferences, conversation_history, llm_called, llm_request, writes>>
storeVars     == <<vectorstore, collection, corpus, distance, store_call, loaded_ok>>

personalizerVars == <<search_results, personalized_listings, personalize_call>>

vars == <<state, preferences, conversation_history, outcome, llm_called, writes,
          vectorstore, collection, corpus, distance, store_call, loaded_ok,
          search_results, personalized_listings, personalize_call, llm_request>>

----------------------------------------------------------------------------
(* Bounds *)

\* process_response calls allowed per conversation (each appends two history entries)
MaxTurns == 14

----------------------------------------------------------------------------
(* ConversationState, in declaration order *)

GREETING      == "greeting"
PROPERTY_TYPE == "property_type"
BUDGET        == "budget"
BEDROOMS      == "bedrooms"
BATHROOMS     == "bathrooms"
OUTDOOR_SPACE == "outdoor_space"
AREAS         == "areas"
COMMUTE       == "commute"
TRANSPORT     == "transport"
AMENITIES     == "amenities"
COMMUNITY     == "community"
FEATURES      == "features"
PRIORITIES    == "priorities"
CONFIRMATION  == "confirmation"
COMPLETE      == "complete"

ConversationState ==
    << GREETING, PROPERTY_TYPE, BUDGET, BEDROOMS, BATHROOMS, OUTDOOR_SPACE, AREAS,
       COMMUTE, TRANSPORT, AMENITIES, COMMUNITY, FEATURES, PRIORITIES,
       CONFIRMATION, COMPLETE >>

\* the 17 fields of the dataclass, in declaration order
FieldNames ==
    << "property_type", "budget_range", "bedrooms", "bathrooms", "outdoor_space",
       "preferred_areas", "commute_location", "commute_time", "transport_preference",
       "transport_priority", "amenities", "community_type", "must_have_features",
       "deal_breakers", "special_requirements", "top_priorities", "additional_info" >>

Fields == { FieldNames[i] : i \in DOMAIN FieldNames }

\* BuyerPreferences(): every field defaults to ""
BuyerPreferences == [ f \in Fields |-> <<>> ]

----------------------------------------------------------------------------
(* Python str operations used by the collector *)

UpperChars == << "A","B","C","D","E","F","G","H","I","J","K","L","M",
                 "N","O","P","Q","R","S","T","U","V","W","X","Y","Z" >>
LowerChars == << "a","b","c","d","e","f","g","h","i","j","k","l","m",
                 "n","o","p","q","r","s","t","u","v","w","x","y","z" >>

\* str.lower(): every cased character mapped to lower case, others kept
\* (ToLower is the case mapping of the letters A-Z)
ToLower ==
    [ c \in { UpperChars[k] : k \in DOMAIN UpperChars } |->
        LowerChars[CHOOSE k \in DOMAIN UpperChars : UpperChars[k] = c] ]

lower(s) ==
    [ i \in DOMAIN s |-> IF s[i] \in DOMAIN ToLower THEN ToLower[s[i]] ELSE s[i] ]

\* sub in s
contains(sub, s) ==
    \E i \in 0..(Len(s) - Len(sub)) : SubSeq(s, i + 1, i + Len(sub)) = sub

Whitespace == { " ", "\n", "\t" }

RECURSIVE lstrip(_)
lstrip(s) ==
    IF s # <<>> /\ Head(s) \in Whitespace THEN lstrip(Tail(s)) ELSE s

RECURSIVE rstrip(_)
rstrip(s) ==
    IF s # <<>> /\ s[Len(s)] \in Whitespace THEN rstrip(SubSeq(s, 1, Len(s) - 1)) ELSE s

\* str.strip()
strip(s) == rstrip(lstrip(s))

----------------------------------------------------------------------------
(* Outcome of a call *)

Returned(v) == [ kind |-> "return", value |-> v ]
Raised(e)   == [ kind |-> "raise",  value |-> e ]

\* the value of a call that returns None (__init__, reset)
None == << >>

ValueError == <<"ValueError: ", "Cannot generate query - preference collection not complete">>
LLMError   == <<"Exception raised by chain.invoke">>

----------------------------------------------------------------------------
(* User input.  process_response takes any str in any state.  The         *)
(* collecting branches and the final else never look inside the input, so  *)
(* an empty and a non-empty mixed-case answer exercise them; the           *)
(* confirmation branch inspects the input and gets one answer per case:    *)
(* empty, "yes" in upper case, "correct" capitalised, neither token.       *)

\* answers typed to a field question or after completion
FieldAnswers == { << >>, <<"F","l","a","t">> }

\* answers typed to the confirmation question
ConfirmAnswers ==
    { << >>,
      <<"Y","E","S","!">>,
      <<"C","o","r","r","e","c","t">>,
      <<"N","o">> }

Answers(st) == IF st = CONFIRMATION THEN ConfirmAnswers ELSE FieldAnswers

----------------------------------------------------------------------------
(* process_response: one definition per branch of the if/elif chain.        *)
(* A branch yields the new record, the new state and the response.          *)

\* a branch that assigns no field of the record
Keep(p, st, r) == [ preferences |-> p, state |-> st, response |-> r, written |-> {} ]

\* self.preferences.<field> = user_input; self.state = <next>; response = <prompt>
Collect(p, field, user_input, next, prompt) ==
    [ preferences |-> [ p EXCEPT ![field] = user_input ],
      state       |-> next,
      response    |-> prompt,
      written     |-> { field } ]

\* slip: the greeting advances to the declared state after it
GreetingBranchToPropertyType(p, user_input) ==
    Collect(p, "property_type", user_input, PROPERTY_TYPE,
            <<"Great! What's your budget range?">>)

GreetingBranch(p, user_input) ==
    Collect(p, "property_type", user_input, BUDGET,
            <<"Great! What's your budget range?">>)

\* slip: a blank answer is refused and the question asked again
BudgetBranchRejectsBlank(p, user_input) ==
    IF user_input = <<>>
    THEN Keep(p, BUDGET, <<"Great! What's your budget range?">>)
    ELSE Collect(p, "budget_range", user_input, BEDROOMS,
                 <<"How many bedrooms do you need? Any flexibility on this?">>)

BudgetBranch(p, user_input) ==
    Collect(p, "budget_range", user_input, BEDROOMS,
            <<"How many bedrooms do you need? Any flexibility on this?">>)

BedroomsBranch(p, user_input) ==
    Collect(p, "bedrooms", user_input, BATHROOMS,
            <<"Any preference on bathrooms? Is an en-suite important?">>)

BathroomsBranch(p, user_input) ==
    Collect(p, "bathrooms", user_input, OUTDOOR_SPACE,
            <<"Do you need outdoor space? Garden, balcony, or roof terrace?">>)

\* slip: the answer is not stored
OutdoorSpaceBranchNotStored(p, user_input) ==
    Keep(p, AREAS,
         <<"Are there specific areas in London you're interested in or want to avoid?">>)

OutdoorSpaceBranch(p, user_input) ==
    Collect(p, "outdoor_space", user_input, AREAS,
            <<"Are there specific areas in London you're interested in or want to avoid?">>)

AreasBranch(p, user_input) ==
    Collect(p, "preferred_areas", user_input, COMMUTE,
            <<"Where do you need to commute to for work? And what's your acceptable commute time?">>)

\* slip: the answer lands in the neighbouring commute field
CommuteBranchWrongField(p, user_input) ==
    Collect(p, "commute_time", user_input, TRANSPORT,
            <<"Do you prefer tube, bus, rail, or are you flexible with transport? How important are direct transport links?">>)

CommuteBranch(p, user_input) ==
    Collect(p, "commute_location", user_input, TRANSPORT,
            <<"Do you prefer tube, bus, rail, or are you flexible with transport? How important are direct transport links?">>)

TransportBranch(p, user_input) ==
    Collect(p, "transport_preference", user_input, AMENITIES,
            <<"What's important to have nearby: shops, restaurants, parks, gyms, schools? Do you prefer busy areas with nightlife or quieter residential areas?">>)

\* slip: copy of the next branch's assignment target
AmenitiesBranchCopyPaste(p, user_input) ==
    Collect(p, "community_type", user_input, COMMUNITY,
            <<"Do you prefer established family neighborhoods, trendy up-and-coming areas, or central locations?">>)

AmenitiesBranch(p, user_input) ==
    Collect(p, "amenities", user_input, COMMUNITY,
            <<"Do you prefer established family neighborhoods, trendy up-and-coming areas, or central locations?">>)

CommunityBranch(p, user_input) ==
    Collect(p, "community_type", user_input, FEATURES,
            <<"Any must-have features (parking, period features, modern kitchen, etc.) or deal-breakers? Any special requirements?">>)

\* slip: the combined answer is also filed under deal_breakers
FeaturesBranchTwoFields(p, user_input) ==
    [ preferences |-> [ p EXCEPT !["must_have_features"] = user_input,
                                 !["deal_breakers"] = user_input ],
      state       |-> PRIORITIES,
      response    |-> <<"If you had to choose, what are your top 3 most important factors from everything we've discussed?">>,
      written     |-> { "must_have_features", "deal_breakers" } ]

FeaturesBranch(p, user_input) ==
    Collect(p, "must_have_features", user_input, PRIORITIES,
            <<"If you had to choose, what are your top 3 most important factors from everything we've discussed?">>)

----------------------------------------------------------------------------
(* _generate_summary.  The bullet U+2022 that opens each line is written   *)
(* "*" here.                                                                *)

SummaryHeader == << "Let me confirm what I've understood about your preferences:", "\n", "\n" >>
SummaryFooter == << "\n", "Is this correct? If there's anything else important I should know about your ideal property, please let me know." >>

\* slip: the line is appended whether or not the field is populated
SummaryLineUnconditional(p, field, label) ==
    <<label>> \o p[field] \o <<"\n">>

\* if self.preferences.<field>: summary += f"<label>{value}\n"
SummaryLine(p, field, label) ==
    IF p[field] # <<>> THEN <<label>> \o p[field] \o <<"\n">> ELSE <<>>

_generate_summary(p) ==
    SummaryHeader
    \o SummaryLine(p, "property_type",        "* Property type: ")
    \o SummaryLine(p, "budget_range",         "* Budget: ")
    \o SummaryLine(p, "bedrooms",             "* Bedrooms: ")
    \o SummaryLine(p, "bathrooms",            "* Bathrooms: ")
    \o SummaryLine(p, "outdoor_space",        "* Outdoor space: ")
    \o SummaryLine(p, "preferred_areas",      "* Preferred areas: ")
    \o SummaryLine(p, "commute_location",     "* Commute: ")
    \o SummaryLine(p, "transport_preference", "* Transport: ")
    \o SummaryLine(p, "amenities",            "* Amenities: ")
    \o SummaryLine(p, "community_type",       "* Community type: ")
    \o SummaryLine(p, "must_have_features",   "* Features: ")
    \o SummaryLine(p, "top_priorities",       "* Top priorities: ")
    \o SummaryFooter

\* slip: the confirmation question is passed over
PrioritiesBranchToComplete(p, user_input) ==
    [ preferences |-> [ p EXCEPT !["top_priorities"] = user_input ],
      state       |-> COMPLETE,
      response    |-> _generate_summary([ p EXCEPT !["top_priorities"] = user_input ]),
      written     |-> { "top_priorities" } ]

PrioritiesBranch(p, user_input) ==
    LET q == [ p EXCEPT !["top_priorities"] = user_input ]
    IN  [ preferences |-> q,
          state       |-> CONFIRMATION,
          response    |-> _generate_summary(q),
          written     |-> { "top_priorities" } ]

\* slip: the tokens are looked for without lower()
IsAffirmativeCaseSensitive(user_input) ==
    \/ contains(<<"y","e","s">>, user_input)
    \/ contains(<<"c","o","r","r","e","c","t">>, user_input)

\* "yes" in user_input.lower() or "correct" in user_input.lower()
IsAffirmative(user_input) ==
    \/ contains(<<"y","e","s">>, lower(user_input))
    \/ contains(<<"c","o","r","r","e","c","t">>, lower(user_input))

\* slip: a correction asks for confirmation again instead of completing
ConfirmationBranchLoops(p, user_input) ==
    IF IsAffirmative(user_input)
    THEN Keep(p, COMPLETE, <<"Perfect! I'll now generate your property search query.">>)
    ELSE [ preferences |-> [ p EXCEPT !["additional_info"] = user_input ],
           state       |-> CONFIRMATION,
           response    |-> _generate_summary([ p EXCEPT !["additional_info"] = user_input ]),
           written     |-> { "additional_info" } ]

ConfirmationBranch(p, user_input) ==
    IF IsAffirmative(user_input)
    THEN Keep(p, COMPLETE, <<"Perfect! I'll now generate your property search query.">>)
    ELSE [ preferences |-> [ p EXCEPT !["additional_info"] = user_input ],
           state       |-> COMPLETE,
           response    |-> <<"Thanks for the clarification. I'll now generate your property search query.">>,
           written     |-> { "additional_info" } ]

\* slip: input after completion is taken as a further clarification
ElseBranchStoresInput(p, st, user_input) ==
    [ preferences |-> [ p EXCEPT !["additional_info"] = user_input ],
      state       |-> st,
      response    |-> <<"I'm not sure how to respond to that. Could you try again?">>,
      written     |-> { "additional_info" } ]

\* the final else: COMPLETE (and the never-entered PROPERTY_TYPE)
ElseBranch(p, st, user_input) ==
    Keep(p, st, <<"I'm not sure how to respond to that. Could you try again?">>)

\* the if/elif chain of process_response
Dispatch(st, p, user_input) ==
    IF      st = GREETING      THEN GreetingBranch(p, user_input)
    ELSE IF st = BUDGET        THEN BudgetBranch(p, user_input)
    ELSE IF st = BEDROOMS      THEN BedroomsBranch(p, user_input)
    ELSE IF st = BATHROOMS     THEN BathroomsBranch(p, user_input)
    ELSE IF st = OUTDOOR_SPACE THEN OutdoorSpaceBranch(p, user_input)
    ELSE IF st = AREAS         THEN AreasBranch(p, user_input)
    ELSE IF st = COMMUTE       THEN CommuteBranch(p, user_input)
    ELSE IF st = TRANSPORT     THEN TransportBranch(p, user_input)
    ELSE IF st = AMENITIES     THEN AmenitiesBranch(p, user_input)
    ELSE IF st = COMMUNITY     THEN CommunityBranch(p, user_input)
    ELSE IF st = FEATURES      THEN FeaturesBranch(p, user_input)
    ELSE IF st = PRIORITIES    THEN PrioritiesBranch(p, user_input)
    ELSE IF st = CONFIRMATION  THEN ConfirmationBranch(p, user_input)
    ELSE ElseBranch(p, st, user_input)

----------------------------------------------------------------------------
(* Operations *)

\* PropertyPreferenceCollector()
\* no call of the chain: no inputs
NoRequest == [ f \in {} |-> <<>> ]

\* the keys of the dict handed to chain.invoke, one per placeholder of the template
PromptFields ==
    { "property_type", "budget_range", "bedrooms", "bathrooms", "outdoor_space",
      "preferred_areas", "commute_location", "transport_preference", "amenities",
      "community_type", "must_have_features", "top_priorities", "additional_info" }

\* slip: the last entry of the dict is left out
PromptInputsWithoutAdditionalInfo(p) ==
    [ f \in PromptFields \ { "additional_info" } |-> p[f] ]

\* chain.invoke({"property_type": self.preferences.property_type, ...})
PromptInputs(p) == [ f \in PromptFields |-> p[f] ]

CollectorInit ==
    /\ state = GREETING
    /\ preferences = BuyerPreferences
    /\ conversation_history = <<>>
    /\ outcome = Returned(None)
    /\ llm_called = FALSE
    /\ llm_request = NoRequest
    /\ writes = [ f \in Fields |-> 0 ]

process_response(user_input) ==
    /\ Len(conversation_history) < 2 * MaxTurns
    /\ \E r \in { Dispatch(state, preferences, user_input) } :
           /\ preferences' = r.preferences
           /\ state' = r.state
           /\ conversation_history' =
                  conversation_history
                  \o << <<"User: ">> \o user_input, <<"Assistant: ">> \o r.response >>
           /\ outcome' = Returned(r.response)
           /\ writes' = [ f \in Fields |-> IF f \in r.written THEN writes[f] + 1 ELSE writes[f] ]
    /\ llm_called' = FALSE
    /\ llm_request' = NoRequest

\* what the text-generation chain may answer
LLMOutputs == { <<" ", "q", "u", "e", "r", "y", "\n">> }

\* slip: the state guard is missing, the chain is invoked in any state
GenerateRejectedUnguarded ==
    /\ state # COMPLETE
    /\ \E query \in LLMOutputs : outcome' = Returned(strip(query))
    /\ llm_called' = TRUE
    /\ llm_request' = PromptInputs(preferences)
    /\ UNCHANGED <<state, preferences, conversation_history, writes>>

\* if self.state != COMPLETE: raise ValueError(...)
GenerateRejected ==
    /\ state # COMPLETE
    /\ outcome' = Raised(ValueError)
    /\ llm_called' = FALSE
    /\ llm_request' = NoRequest
    /\ UNCHANGED <<state, preferences, conversation_history, writes>>

\* chain.invoke(...) returns text; return query.strip()
GenerateReturns ==
    /\ state = COMPLETE
    /\ \E query \in LLMOutputs : outcome' = Returned(strip(query))
    /\ llm_called' = TRUE
    /\ llm_request' = PromptInputs(preferences)
    /\ UNCHANGED <<state, preferences, conversation_history, writes>>

\* slip: the failure is swallowed and an empty query returned
GenerateFailsSwallowed ==
    /\ state = COMPLETE
    /\ outcome' = Returned(<<>>)
    /\ llm_called' = TRUE
    /\ llm_request' = PromptInputs(preferences)
    /\ UNCHANGED <<state, preferences, conversation_history, writes>>

\* slip: a failed generation starts the interview over
GenerateFailsResets ==
    /\ state = COMPLETE
    /\ outcome' = Raised(LLMError)
    /\ llm_called' = TRUE
    /\ llm_request' = PromptInputs(preferences)
    /\ preferences' = BuyerPreferences
    /\ state' = GREETING
    /\ UNCHANGED <<conversation_history, writes>>

\* chain.invoke(...) raises; nothing catches it
GenerateFails ==
    /\ state = COMPLETE
    /\ outcome' = Raised(LLMError)
    /\ llm_called' = TRUE
    /\ llm_request' = PromptInputs(preferences)
    /\ UNCHANGED <<state, preferences, conversation_history, writes>>

generate_semantic_query ==
    \/ GenerateRejected
    \/ GenerateReturns
    \/ GenerateFails

\* slip: the history is not cleared
resetKeepsHistory ==
    /\ preferences' = BuyerPreferences
    /\ state' = GREETING
    /\ outcome' = Returned(None)
    /\ llm_called' = FALSE
    /\ llm_request' = NoRequest
    /\ writes' = [ f \in Fields |-> 0 ]
    /\ UNCHANGED conversation_history

\* is_complete()
is_complete == state = COMPLETE

reset ==
    /\ preferences' = BuyerPreferences
    /\ state' = GREETING
    /\ conversation_history' = <<>>
    /\ outcome' = Returned(None)
    /\ llm_called' = FALSE
    /\ llm_request' = NoRequest
    /\ writes' = [ f \in Fields |-> 0 ]

----------------------------------------------------------------------------
(* The vector store (src/src/vector_store/store.py).                        *)
(*                                                                          *)
(* The persisted Chroma collection is the sequence of its documents in      *)
(* insertion order.  Chroma(...) opens the named collection or creates it   *)
(* empty, so an absent and an empty collection are the same state here.     *)
(* The embedding service is a fixed function from a text to its distance    *)
(* to the query text (lower is closer), drawn once at start.                *)

\* documents the persisted collection may hold
MaxDocs == 4

\* embedding distances range over 0..MaxDistance
MaxDistance == 1

\* largest k asked of semantic_search
MaxK == 3

ListingA ==
    << "A"," ","b","r","i","g","h","t"," ","2"," ","b","e","d","r","o","o",
       "m"," ","f","l","a","t"," ","n","e","a","r"," ","t","h","e"," ","t",
       "u","b","e"," ","w","i","t","h"," ","a"," ","b","a","l","c","o","n",
       "y" >>

ListingB ==
    << "A"," ","4"," ","b","e","d","r","o","o","m"," ","h","o","u","s","e",
       " ","w","i","t","h"," ","a"," ","l","a","r","g","e"," ","g","a","r",
       "d","e","n" >>

ListingC ==
    << "S","t","u","d","i","o"," ","i","n"," ","S","o","h","o" >>

Contents == { ListingA, ListingB, ListingC }

\* data/listings.json: absent, not JSON, JSON that is no mapping, or a mapping
\* from category to listing texts (in file order)
CorpusFile(kind, data) == [ kind |-> kind, data |-> data ]

CorpusMissing     == CorpusFile("missing", <<>>)
CorpusInvalidJson == CorpusFile("invalid_json", <<>>)
CorpusWrongShape  == CorpusFile("wrong_shape", <<>>)
CorpusNoListings  == CorpusFile("mapping", <<>>)
CorpusOne         == CorpusFile("mapping", << << "luxury_central", << ListingC >> >> >>)
CorpusThree       ==
    CorpusFile("mapping", << << "luxury_central", << ListingA, ListingC >> >>,
                             << "family_suburban", << ListingB >> >> >>)

Corpora ==
    { CorpusMissing, CorpusInvalidJson, CorpusWrongShape, CorpusNoListings,
      CorpusOne, CorpusThree }

NoVectorstore == "None"
ChromaHandle  == "Chroma"

NotInitializedError ==
    <<"ValueError: ", "Vector store not initialized. Call setup_vectorstore() first.">>
AttributeError == <<"AttributeError: ", "object has no attribute 'items'">>
ChromaError    == <<"Exception raised by Chroma.from_documents">>

\* where the Chroma client may raise inside load_existing_vectorstore
ChromaFaults == { "none", "open", "count" }

\* filter_dict: None or a dict, given by its items
FilterDict(none, items) == [ none |-> none, items |-> items ]

Filters ==
    { FilterDict(TRUE, {}),
      FilterDict(FALSE, {}),
      FilterDict(FALSE, { << "category", "luxury_central" >> }),
      FilterDict(FALSE, { << "category", "family_suburban" >> }) }

\* truth value of filter_dict
Truthy(filter_dict) == ~filter_dict.none /\ filter_dict.items # {}

\* what a store call touched
StoreCall(op, flag, k, filter_dict, fault, read_corpus, added) ==
    [ op |-> op, force_rebuild |-> flag, k |-> k, filter_dict |-> filter_dict,
      fault |-> fault, read_corpus |-> read_corpus, added |-> added ]

\* the listings of the categories in data, each with a fresh uuid suffix: the
\* suffix of uuid4 is modelled by a tag no earlier document carries
RECURSIVE Listings(_, _)
Listings(data, fresh) ==
    IF data = <<>> THEN <<>>
    ELSE LET category          == Head(data)[1]
             category_listings == Head(data)[2]
         IN  [ i \in 1..Len(category_listings) |->
                 [ id       |-> [ category |-> category, i |-> i - 1, uuid |-> fresh + i - 1 ],
                   category |-> category,
                   content  |-> category_listings[i] ] ]
             \o Listings(Tail(data), fresh + Len(category_listings))

\* slip: a file that cannot be read is taken for a one-listing default corpus
load_listings_default_on_error(json_file, fresh) ==
    IF json_file.kind = "mapping"
    THEN Returned(Listings(json_file.data, fresh))
    ELSE Returned(Listings(<< << "luxury_central", << ListingC >> >> >>, fresh))

load_listings_from_json(json_file, fresh) ==
    IF json_file.kind = "missing" THEN Returned(<<>>)
    ELSE IF json_file.kind = "invalid_json" THEN Returned(<<>>)
    ELSE IF json_file.kind = "wrong_shape" THEN Raised(AttributeError)
    ELSE Returned(Listings(json_file.data, fresh))

create_documents(listings) ==
    [ i \in DOMAIN listings |->
        [ page_content |-> listings[i].content,
          metadata     |-> [ id       |-> listings[i].id,
                             category |-> listings[i].category,
                             source   |-> "generated_listings" ] ] ]

\* slip: the count test is inverted, a populated collection reads as empty
LoadExistingInverted(vs, coll, fault) ==
    IF fault = "open" THEN [ vectorstore |-> vs, result |-> FALSE ]
    ELSE IF fault = "count" THEN [ vectorstore |-> ChromaHandle, result |-> FALSE ]
    ELSE [ vectorstore |-> ChromaHandle, result |-> Len(coll) = 0 ]

\* load_existing_vectorstore: the handle is assigned before the count is
\* tested; an exception of the client is reported as False
LoadExisting(vs, coll, fault) ==
    IF fault = "open" THEN [ vectorstore |-> vs, result |-> FALSE ]
    ELSE IF fault = "count" THEN [ vectorstore |-> ChromaHandle, result |-> FALSE ]
    ELSE [ vectorstore |-> ChromaHandle, result |-> Len(coll) > 0 ]

\* the filter of a query is satisfied by the metadata of a document
Matches(doc, items) ==
    \A kv \in items :
        kv[1] \in DOMAIN doc.metadata /\ doc.metadata[kv[1]] = kv[2]

RECURSIVE InsertByScore(_, _)
InsertByScore(x, sorted) ==
    IF sorted = <<>> THEN << x >>
    ELSE IF Head(sorted).score <= x.score
         THEN << Head(sorted) >> \o InsertByScore(x, Tail(sorted))
         ELSE << x >> \o sorted

\* stable sort by ascending distance
RECURSIVE SortByScore(_)
SortByScore(scored) ==
    IF scored = <<>> THEN <<>>
    ELSE InsertByScore(scored[Len(scored)], SortByScore(SubSeq(scored, 1, Len(scored) - 1)))

\* Chroma.similarity_search_with_score: the k nearest of the documents that
\* satisfy the filter, nearest first, ties in insertion order
similarity_search_with_score(coll, dist, k, items) ==
    LET eligible == SelectSeq(coll, LAMBDA doc : Matches(doc, items))
        scored   == [ i \in DOMAIN eligible |->
                        [ doc |-> eligible[i], score |-> dist[eligible[i].page_content] ] ]
        ranked   == SortByScore(scored)
    IN  SubSeq(ranked, 1, IF k < Len(ranked) THEN k ELSE Len(ranked))

\* slip: the results are prepended, which reverses the ranking
FormatResultsReversed(results) ==
    [ i \in DOMAIN results |->
        [ content          |-> results[Len(results) + 1 - i].doc.page_content,
          metadata         |-> results[Len(results) + 1 - i].doc.metadata,
          similarity_score |-> results[Len(results) + 1 - i].score ] ]

\* for doc, score in results: formatted_results.append({...})
FormatResults(results) ==
    [ i \in DOMAIN results |->
        [ content          |-> results[i].doc.page_content,
          metadata         |-> results[i].doc.metadata,
          similarity_score |-> results[i].score ] ]

\* slip: the filter is dropped on the way to the index
SearchResultsUnfiltered(coll, dist, k, filter_dict) ==
    similarity_search_with_score(coll, dist, k, {})

\* if filter_dict: search with filter, else: search without
SearchResults(coll, dist, k, filter_dict) ==
    IF Truthy(filter_dict)
    THEN similarity_search_with_score(coll, dist, k, filter_dict.items)
    ELSE similarity_search_with_score(coll, dist, k, {})

SemanticSearchOutcome(vs, coll, dist, k, filter_dict) ==
    IF vs = NoVectorstore
    THEN Raised(NotInitializedError)
    ELSE Returned(FormatResults(SearchResults(coll, dist, k, filter_dict)))

\* setup_vectorstore: what the call returns or raises and what it leaves
SetupOutcome(vs, coll, json_file, force_rebuild, load_fault, ingest_fault) ==
    LET loaded   == IF force_rebuild
                    THEN [ vectorstore |-> vs, result |-> FALSE ]
                    ELSE LoadExisting(vs, coll, load_fault)
        listings == load_listings_from_json(json_file, Len(coll))
        kept     == [ vectorstore |-> loaded.vectorstore, collection |-> coll,
                      outcome |-> Returned(FALSE), read_corpus |-> TRUE, added |-> 0 ]
    IN  IF ~force_rebuild /\ loaded.result
        THEN [ kept EXCEPT !.outcome = Returned(TRUE), !.read_corpus = FALSE ]
        ELSE IF listings.kind = "raise"
        THEN [ kept EXCEPT !.outcome = listings ]
        ELSE IF listings.value = <<>>
        THEN kept
        ELSE IF ingest_fault
        THEN [ kept EXCEPT !.outcome = Raised(ChromaError) ]
        ELSE [ vectorstore |-> ChromaHandle,
               collection  |-> coll \o create_documents(listings.value),
               outcome     |-> Returned(TRUE),
               read_corpus |-> TRUE,
               added       |-> Len(listings.value) ]

\* PropertyVectorStore() on an empty persist directory
StoreInit ==
    /\ vectorstore = NoVectorstore
    /\ collection = <<>>
    /\ corpus \in Corpora
    /\ distance \in [ Contents -> 0..MaxDistance ]
    /\ store_call = StoreCall("__init__", FALSE, 0, FilterDict(TRUE, {}), "none", FALSE, 0)
    /\ loaded_ok = FALSE

\* a new process constructs PropertyVectorStore() over the same directory
Restart ==
    /\ store_call.op # "__init__"
    /\ vectorstore' = NoVectorstore
    /\ loaded_ok' = FALSE
    /\ outcome' = Returned(None)
    /\ store_call' = StoreCall("__init__", FALSE, 0, FilterDict(TRUE, {}), "none", FALSE, 0)
    /\ UNCHANGED <<collection, corpus, distance>>

\* the listing generator or the user replaces data/listings.json
WriteCorpus(json_file) ==
    /\ json_file # corpus
    /\ corpus' = json_file
    /\ UNCHANGED <<vectorstore, collection, distance, store_call, loaded_ok, outcome>>

load_existing_vectorstore ==
    \E fault \in ChromaFaults :
        \E r \in { LoadExisting(vectorstore, collection, fault) } :
            /\ vectorstore' = r.vectorstore
            /\ outcome' = Returned(r.result)
            /\ loaded_ok' = (loaded_ok \/ r.result)
            /\ store_call' = StoreCall("load_existing_vectorstore", FALSE, 0,
                                       FilterDict(TRUE, {}), fault, FALSE, 0)
            /\ UNCHANGED <<collection, corpus, distance>>

setup_vectorstore(force_rebuild) ==
    \E load_fault \in (IF force_rebuild THEN { "none" } ELSE ChromaFaults) :
        \E ingest_fault \in BOOLEAN :
            \E r \in { SetupOutcome(vectorstore, collection, corpus, force_rebuild,
                                    load_fault, ingest_fault) } :
                /\ Len(r.collection) <= MaxDocs
                /\ vectorstore' = r.vectorstore
                /\ collection' = r.collection
                /\ outcome' = r.outcome
                /\ loaded_ok' = (loaded_ok \/ r.outcome = Returned(TRUE))
                /\ store_call' = StoreCall("setup_vectorstore", force_rebuild, 0,
                                           FilterDict(TRUE, {}), load_fault,
                                           r.read_corpus, r.added)
                /\ UNCHANGED <<corpus, distance>>

semantic_search(k, filter_dict) ==
    /\ outcome' = SemanticSearchOutcome(vectorstore, collection, distance, k, filter_dict)
    /\ store_call' = StoreCall("semantic_search", FALSE, k, filter_dict, "none", FALSE, 0)
    /\ UNCHANGED <<vectorstore, collection, corpus, distance, loaded_ok>>

----------------------------------------------------------------------------
(* The personalizer (src/src/personalization/personalize.py) *)

\* longest search result list handed to the personalizer
MaxResults == 2

\* len(word) > 3
MinWordLength == 3

\* matched_amenities[:3]
MaxListedAmenities == 3

\* str.split(): the words between runs of whitespace
RECURSIVE split(_)
split(s) ==
    LET t == lstrip(s)
    IN  IF t = <<>> THEN <<>>
        ELSE LET n == CHOOSE n \in 1..Len(t) :
                          /\ \A m \in 1..n : t[m] \notin Whitespace
                          /\ n = Len(t) \/ t[n + 1] \in Whitespace
             IN  << SubSeq(t, 1, n) >> \o split(SubSeq(t, n + 1, Len(t)))

\* sep.join(words)
RECURSIVE join(_, _)
join(sep, words) ==
    IF words = <<>> THEN <<>>
    ELSE IF Len(words) = 1 THEN words[1]
    ELSE words[1] \o sep \o join(sep, Tail(words))

\* any(keyword in content_lower for keyword in keywords)
AnyKeyword(keywords, content_lower) ==
    \E keyword \in keywords : contains(keyword, content_lower)

bedroom_keywords == { << "b","e","d","r","o","o","m" >>, << "b","e","d" >> }

outdoor_keywords ==
    { << "g","a","r","d","e","n" >>,
      << "b","a","l","c","o","n","y" >>,
      << "t","e","r","r","a","c","e" >>,
      << "o","u","t","d","o","o","r" >>,
      << "p","a","t","i","o" >> }

transport_keywords ==
    { << "t","u","b","e" >>,
      << "s","t","a","t","i","o","n" >>,
      << "t","r","a","n","s","p","o","r","t" >>,
      << "b","u","s" >>,
      << "r","a","i","l" >>,
      << "l","i","n","e" >> }

\* the literal "no"
NoAnswer == << "n","o" >>

PropertyTypeLabel == "Property Type: "
BedroomLabel      == "Bedroom Requirements: "
OutdoorLabel      == "Outdoor Space Available"
LocationLabel     == "Preferred Location: "
TransportLabel    == "Good Transport Links"
AmenitiesLabel    == "Desired Amenities: "

\* the six checks of _identify_preference_highlights: what each appends
PropertyTypeHighlight(content_lower, prefs) ==
    IF prefs.property_type # <<>> /\ contains(lower(prefs.property_type), content_lower)
    THEN << << PropertyTypeLabel >> \o prefs.property_type >>
    ELSE <<>>

BedroomHighlight(content_lower, prefs) ==
    IF prefs.bedrooms # <<>> /\ AnyKeyword(bedroom_keywords, content_lower)
    THEN << << BedroomLabel >> \o prefs.bedrooms >>
    ELSE <<>>

OutdoorHighlight(content_lower, prefs) ==
    IF /\ prefs.outdoor_space # <<>>
       /\ lower(prefs.outdoor_space) # NoAnswer
       /\ AnyKeyword(outdoor_keywords, content_lower)
    THEN << << OutdoorLabel >> >>
    ELSE <<>>

AreaHighlight(content_lower, prefs) ==
    LET area_words == split(lower(prefs.preferred_areas))
    IN  IF /\ prefs.preferred_areas # <<>>
           /\ \E i \in DOMAIN area_words :
                  /\ Len(area_words[i]) > MinWordLength
                  /\ contains(area_words[i], content_lower)
        THEN << << LocationLabel >> \o prefs.preferred_areas >>
        ELSE <<>>

TransportHighlight(content_lower, prefs) ==
    IF prefs.transport_preference # <<>> /\ AnyKeyword(transport_keywords, content_lower)
    THEN << << TransportLabel >> >>
    ELSE <<>>

AmenitiesHighlight(content_lower, prefs) ==
    LET amenity_words     == split(lower(prefs.amenities))
        matched_amenities == SelectSeq(amenity_words,
                                 LAMBDA word : /\ contains(word, content_lower)
                                               /\ Len(word) > MinWordLength)
        listed            == SubSeq(matched_amenities, 1,
                                 IF Len(matched_amenities) < MaxListedAmenities
                                 THEN Len(matched_amenities) ELSE MaxListedAmenities)
    IN  IF prefs.amenities # <<>> /\ matched_amenities # <<>>
        THEN << << AmenitiesLabel >> \o join(<< ",", " " >>, listed) >>
        ELSE <<>>

\* slip: the checks are chained with elif, the first that matches ends them
identify_preference_highlights_elif(original_content, prefs) ==
    LET content_lower == lower(original_content)
        each == << PropertyTypeHighlight(content_lower, prefs),
                   BedroomHighlight(content_lower, prefs),
                   OutdoorHighlight(content_lower, prefs),
                   AreaHighlight(content_lower, prefs),
                   TransportHighlight(content_lower, prefs),
                   AmenitiesHighlight(content_lower, prefs) >>
    IN  IF \A i \in DOMAIN each : each[i] = <<>> THEN <<>>
        ELSE each[CHOOSE i \in DOMAIN each :
                      each[i] # <<>> /\ \A j \in 1..(i - 1) : each[j] = <<>>]

_identify_preference_highlights(original_content, prefs) ==
    LET content_lower == lower(original_content)
    IN  PropertyTypeHighlight(content_lower, prefs)
        \o BedroomHighlight(content_lower, prefs)
        \o OutdoorHighlight(content_lower, prefs)
        \o AreaHighlight(content_lower, prefs)
        \o TransportHighlight(content_lower, prefs)
        \o AmenitiesHighlight(content_lower, prefs)

\* what the rewrite chain answers for a listing when it answers
RewriteOutput(original_content) ==
    << " ", "Tailored for you: " >> \o original_content \o << "\n" >>

\* _generate_personalized_description when the chain answers
_generate_personalized_description(original_content) ==
    strip(RewriteOutput(original_content))

\* result['metadata'].get('category', 'Unknown')
Category(result) ==
    IF "category" \in DOMAIN result.metadata THEN result.metadata.category ELSE "Unknown"

PersonalizedListing(result, prefs) ==
    [ original_content         |-> result.content,
      personalized_description |-> _generate_personalized_description(result.content),
      category                 |-> Category(result),
      similarity_score         |-> result.similarity_score,
      preference_highlights    |-> _identify_preference_highlights(result.content, prefs),
      metadata                 |-> result.metadata ]

\* slip: the fallback leaves the description empty
FallbackListingNoDescription(result) ==
    [ original_content         |-> result.content,
      personalized_description |-> <<>>,
      category                 |-> Category(result),
      similarity_score         |-> result.similarity_score,
      preference_highlights    |-> <<>>,
      metadata                 |-> result.metadata ]

\* except Exception: the listing with its original content and no highlights
FallbackListing(result) ==
    [ original_content         |-> result.content,
      personalized_description |-> result.content,
      category                 |-> Category(result),
      similarity_score         |-> result.similarity_score,
      preference_highlights    |-> <<>>,
      metadata                 |-> result.metadata ]

\* slip: a result whose rewrite fails is skipped
PersonalizeLoopSkipsFailed(results, prefs, failed) ==
    LET kept == SelectSeq([ i \in DOMAIN results |-> [ i |-> i, result |-> results[i] ] ],
                          LAMBDA x : x.i \notin failed)
    IN  [ n \in DOMAIN kept |-> PersonalizedListing(kept[n].result, prefs) ]

\* for result in search_results: try ... except ...; failed holds the places
\* of the results whose rewrite raises
PersonalizeLoop(results, prefs, failed) ==
    [ i \in DOMAIN results |->
        IF i \in failed THEN FallbackListing(results[i])
        ELSE PersonalizedListing(results[i], prefs) ]

\* the values a buyer's answers take in this model, per field read by the checks
PropertyTypeAnswers == { <<>>, << "F","l","a","t" >>, << "h","o","u","s","e" >> }
BedroomAnswers      == { <<>>, << "2" >> }
OutdoorAnswers ==
    { <<>>, << "N","o" >>, << "N","o"," ","t","h","a","n","k","s" >>,
      << "A"," ","g","a","r","d","e","n" >> }
AreaAnswers         == { <<>>, << "S","o","h","o" >>, << "i","n" >> }
TransportAnswers    == { <<>>, << "T","u","b","e" >> }
AmenityAnswers ==
    { <<>>, << "g","a","r","d","e","n" >>,
      << "b","r","i","g","h","t"," ","f","l","a","t"," ","n","e","a","r"," ","t","u","b","e" >> }

BuyerPreferencesSet ==
    { [ BuyerPreferences EXCEPT !.property_type        = pt,
                                !.bedrooms             = bd,
                                !.outdoor_space        = os,
                                !.preferred_areas      = ar,
                                !.transport_preference = tp,
                                !.amenities            = am ] :
        pt \in PropertyTypeAnswers, bd \in BedroomAnswers, os \in OutdoorAnswers,
        ar \in AreaAnswers, tp \in TransportAnswers, am \in AmenityAnswers }

\* two queries: one as near to every listing, one nearest to ListingB
QueryDistances ==
    { [ c \in Contents |-> 0 ],
      [ c \in Contents |-> IF c = ListingB THEN 0 ELSE 1 ] }

\* what semantic_search returns over the collection ingested from CorpusThree
SearchResultLists ==
    { FormatResults(SearchResults(create_documents(Listings(CorpusThree.data, 0)),
                                  dist, k, FilterDict(TRUE, {}))) :
        dist \in QueryDistances, k \in 0..MaxResults }

PersonalizeCall(op, failed) == [ op |-> op, failed |-> failed ]

PersonalizerIdle ==
    /\ search_results = <<>>
    /\ personalized_listings = <<>>
    /\ personalize_call = PersonalizeCall("__init__", {})

\* personalize_listings(search_results, buyer_preferences) over the collector's record
personalize_listings(failed) ==
    /\ personalized_listings' = PersonalizeLoop(search_results, preferences, failed)
    /\ personalize_call' = PersonalizeCall("personalize_listings", failed)
    /\ UNCHANGED search_results

----------------------------------------------------------------------------
(* Specifications *)

\* the collector and the store as constructed, before any call
Init ==
    /\ CollectorInit
    /\ StoreInit
    /\ PersonalizerIdle

\* the interview alone, over an untouched store
CollectorOnlyInit ==
    /\ CollectorInit
    /\ StoreInit
    /\ PersonalizerIdle
    /\ corpus = CorpusMissing
    /\ distance = [ c \in Contents |-> 0 ]

Next ==
    \/ \E user_input \in Answers(state) :
           process_response(user_input) /\ UNCHANGED <<storeVars, personalizerVars>>
    \/ generate_semantic_query /\ UNCHANGED <<storeVars, personalizerVars>>
    \/ reset /\ UNCHANGED <<storeVars, personalizerVars>>

Spec == CollectorOnlyInit /\ [][Next]_vars

StoreNext ==
    \/ load_existing_vectorstore /\ UNCHANGED <<collectorVars, personalizerVars>>
    \/ \E force_rebuild \in BOOLEAN :
           setup_vectorstore(force_rebuild) /\ UNCHANGED <<collectorVars, personalizerVars>>
    \/ \E k \in 1..MaxK : \E filter_dict \in Filters :
           semantic_search(k, filter_dict) /\ UNCHANGED <<collectorVars, personalizerVars>>
    \/ \E json_file \in Corpora :
           WriteCorpus(json_file) /\ UNCHANGED <<collectorVars, personalizerVars>>
    \/ Restart /\ UNCHANGED <<collectorVars, personalizerVars>>

SpecStore == Init /\ [][StoreNext]_vars

\* a collector holding a buyer's preferences and the results of a search, as
\* demo_personalization and run_persona_demo hand them to the personalizer
PersonalizerInit ==
    /\ state = COMPLETE
    /\ preferences \in BuyerPreferencesSet
    /\ conversation_history = <<>>
    /\ outcome = Returned(None)
    /\ llm_called = FALSE
    /\ llm_request = NoRequest
    /\ writes = [ f \in Fields |-> 0 ]
    /\ vectorstore = ChromaHandle
    /\ collection = create_documents(Listings(CorpusThree.data, 0))
    /\ corpus = CorpusThree
    /\ distance = [ c \in Contents |-> 0 ]
    /\ store_call = StoreCall("__init__", FALSE, 0, FilterDict(TRUE, {}), "none", FALSE, 0)
    /\ loaded_ok = TRUE
    /\ search_results \in SearchResultLists
    /\ personalized_listings = <<>>
    /\ personalize_call = PersonalizeCall("__init__", {})

PersonalizerNext ==
    \E failed \in SUBSET DOMAIN search_results :
        personalize_listings(failed) /\ UNCHANGED <<collectorVars, storeVars, outcome>>

SpecPersonalizer == PersonalizerInit /\ [][PersonalizerNext]_vars

\* main(): while not collector.is_complete(): process_response(input(...))
MainLoopTurn ==
    /\ ~is_complete
    /\ \E user_input \in Answers(state) : process_response(user_input)
    /\ UNCHANGED <<storeVars, personalizerVars>>

\* a process_response call made once the collector is complete
LaterTurn ==
    /\ is_complete
    /\ \E user_input \in Answers(state) : process_response(user_input)
    /\ UNCHANGED <<storeVars, personalizerVars>>

MainNext ==
    \/ MainLoopTurn
    \/ LaterTurn

\* the loop of main goes on while it can: input() returns and the call returns
SpecMain == CollectorOnlyInit /\ [][MainNext]_vars /\ WF_vars(MainLoopTurn)

\* the budgets a persona may state
PersonaBudgets == { << "4","0","0","k" >>, << "u","n","d","e","r"," ","6","0","0","k" >> }

\* the responses of one persona, in the order run_persona_demo feeds them
PersonaResponses(budget) ==
    <<
       << "f","l","a","t" >>,
       budget,
       << "2"," ","b","e","d","r","o","o","m","s" >>,
       << "1"," ","b","a","t","h","r","o","o","m" >>,
       << "b","a","l","c","o","n","y" >>,
       << "a","n","y","w","h","e","r","e" >>,
       << "c","e","n","t","r","a","l"," ","L","o","n","d","o","n" >>,
       << "t","u","b","e" >>,
       << "c","a","f","e","s" >>,
       << "t","r","e","n","d","y" >>,
       << "n","o","n","e" >>,
       << "t","r","a","n","s","p","o","r","t"," ","a","n","d"," ","p","r","i","c","e" >>,
       << "y","e","s" >> >>

\* DemoRunner._setup_vector_store: setup_vectorstore(); a failure is only reported
_setup_vector_store ==
    /\ store_call.op = "__init__"
    /\ setup_vectorstore(FALSE)
    /\ UNCHANGED <<collectorVars, personalizerVars>>

\* run_persona_demo: one pass of the loop over the responses, left when the
\* collector is complete (the reset before the loop acts on a fresh collector)
PersonaTurn ==
    /\ store_call.op = "setup_vectorstore"
    /\ ~is_complete
    /\ Len(conversation_history) \div 2 < Len(PersonaResponses(<<>>))
    /\ \E budget \in PersonaBudgets :
           process_response(PersonaResponses(budget)[Len(conversation_history) \div 2 + 1])
    /\ UNCHANGED <<storeVars, personalizerVars>>

\* run_persona_demo: if is_complete(): generate_semantic_query()
PersonaQuery ==
    /\ store_call.op = "setup_vectorstore"
    /\ is_complete
    /\ ~llm_called
    /\ generate_semantic_query
    /\ UNCHANGED <<storeVars, personalizerVars>>

\* _demonstrate_search: semantic_search(query, k=1), then personalize_listings
\* on its results; an exception of the search is only reported
_demonstrate_search ==
    /\ store_call.op = "setup_vectorstore"
    /\ llm_called
    /\ outcome.kind = "return"
    /\ \E found \in { SemanticSearchOutcome(vectorstore, collection, distance, 1,
                                             FilterDict(TRUE, {})) } :
           /\ outcome' = found
           /\ store_call' = StoreCall("semantic_search", FALSE, 1, FilterDict(TRUE, {}),
                                      "none", FALSE, 0)
           /\ IF found.kind = "return"
              THEN \E failed \in SUBSET DOMAIN found.value :
                       /\ search_results' = found.value
                       /\ personalized_listings' =
                              PersonalizeLoop(found.value, preferences, failed)
                       /\ personalize_call' = PersonalizeCall("personalize_listings", failed)
              ELSE UNCHANGED personalizerVars
    /\ UNCHANGED <<vectorstore, collection, corpus, distance, loaded_ok>>
    /\ UNCHANGED collectorVars

DemoNext ==
    \/ _setup_vector_store
    \/ PersonaTurn
    \/ PersonaQuery
    \/ _demonstrate_search

\* DemoRunner() running one persona
SpecDemo == Init /\ [][DemoNext]_vars

----------------------------------------------------------------------------
(* Vocabulary of the properties *)

\* position of a state in the declared order
Ord(st) == CHOOSE i \in DOMAIN ConversationState : ConversationState[i] = st

\* the twelve collecting states and the field each one fills, in interview order
CollectingStates ==
    << GREETING, BUDGET, BEDROOMS, BATHROOMS, OUTDOOR_SPACE, AREAS, COMMUTE,
       TRANSPORT, AMENITIES, COMMUNITY, FEATURES, PRIORITIES >>

CollectedFields ==
    << "property_type", "budget_range", "bedrooms", "bathrooms", "outdoor_space",
       "preferred_areas", "commute_location", "transport_preference", "amenities",
       "community_type", "must_have_features", "top_priorities" >>

\* the thirteen fields the interview targets
TargetedFields == CollectedFields \o << "additional_info" >>

\* the four fields no dialog state fills
UnaskedFields == { "commute_time", "transport_priority", "deal_breakers", "special_requirements" }

\* the step is one process_response call: it appends the input and the response
Responded == Len(conversation_history') = Len(conversation_history) + 2

\* the input of the process_response call just made
LastInput == Tail(conversation_history'[Len(conversation_history') - 1])

\* the i-th answer of the conversation so far
SubmittedAnswer(i) == Tail(conversation_history[2 * i - 1])

\* the answer holds the token, whatever its case
HasToken(answer, token) ==
    \E i \in 1..(Len(answer) - Len(token) + 1) :
        lower(SubSeq(answer, i, i + Len(token) - 1)) = token

SaysYesOrCorrect(answer) ==
    \/ HasToken(answer, <<"y","e","s">>)
    \/ HasToken(answer, <<"c","o","r","r","e","c","t">>)

----------------------------------------------------------------------------
(* C1 *)

\* C1 as stated: once the thirteen answers are in, the state is complete and
\* each of the thirteen targeted fields equals the answer given at its turn.
C1_AllThirteenStored ==
    Len(conversation_history) >= 26 =>
        /\ state = COMPLETE
        /\ \A i \in 1..13 : preferences[TargetedFields[i]] = SubmittedAnswer(i)

\* C1 amended: once the thirteen answers are in, the state is complete, the
\* twelve collected fields equal the first twelve answers in order, and
\* additional_info equals the thirteenth answer unless that answer says "yes"
\* or "correct", in which case additional_info is still empty.
C1_TwelveStoredThenClarification ==
    Len(conversation_history) >= 26 =>
        /\ state = COMPLETE
        /\ \A i \in 1..12 : preferences[CollectedFields[i]] = SubmittedAnswer(i)
        /\ preferences["additional_info"] =
               IF SaysYesOrCorrect(SubmittedAnswer(13)) THEN <<>> ELSE SubmittedAnswer(13)

C1_Witness ==
    /\ state = COMPLETE
    /\ Len(conversation_history) = 26
    /\ preferences["commute_location"] = <<"F","l","a","t">>
    /\ preferences["transport_preference"] = <<>>
    /\ preferences["additional_info"] = <<"N","o">>

----------------------------------------------------------------------------
(* C2 *)

\* C2: a process_response call made in the confirmation state ends in the
\* complete state; an answer holding "yes" or "correct" in any case leaves
\* additional_info as it was, any other answer is stored in it verbatim.
C2_ConfirmationCompletes ==
    [][ (state = CONFIRMATION /\ Responded) =>
            /\ state' = COMPLETE
            /\ IF SaysYesOrCorrect(LastInput)
               THEN /\ preferences'["additional_info"] = preferences["additional_info"]
                    /\ writes'["additional_info"] = writes["additional_info"]
               ELSE preferences'["additional_info"] = LastInput ]_vars

C2_Witness ==
    /\ state = COMPLETE
    /\ Len(conversation_history) >= 26
    /\ SubmittedAnswer(13) = <<"Y","E","S","!">>
    /\ writes["additional_info"] = 0

----------------------------------------------------------------------------
(* C3 *)

\* C3: a process_response call never moves the state backward in the declared
\* order; made before complete it moves the state strictly forward, passing
\* over no declared state other than PROPERTY_TYPE; made in complete it stays.
C3_ForwardOnly ==
    [][ Responded =>
            IF state = COMPLETE
            THEN state' = COMPLETE
            ELSE /\ Ord(state') > Ord(state)
                 /\ \A k \in (Ord(state) + 1)..(Ord(state') - 1) :
                        ConversationState[k] = PROPERTY_TYPE ]_vars

C3_Witness ==
    /\ state = CONFIRMATION
    /\ Len(conversation_history) = 24
    /\ outcome.kind = "return"

----------------------------------------------------------------------------
(* C4 *)

\* C4: a process_response call made in the complete state leaves the state
\* complete and the record as it was, and returns one fixed text.
C4_CompleteIsTerminal ==
    [][ (state = COMPLETE /\ Responded) =>
            /\ state' = COMPLETE
            /\ preferences' = preferences
            /\ outcome' = Returned(<<"I'm not sure how to respond to that. Could you try again?">>) ]_vars

C4_Witness ==
    /\ state = COMPLETE
    /\ Len(conversation_history) = 28
    /\ SubmittedAnswer(14) = <<"F","l","a","t">>
    /\ outcome = Returned(<<"I'm not sure how to respond to that. Could you try again?">>)

----------------------------------------------------------------------------
(* C5 *)

\* C5 as stated: in a completed conversation every field other than
\* additional_info has been written exactly once, additional_info at most once.
C5_AllSeventeenWritten ==
    state = COMPLETE =>
        /\ \A f \in Fields \ { "additional_info" } : writes[f] = 1
        /\ writes["additional_info"] <= 1

\* C5 amended: every field starts empty; each of the twelve collected fields
\* is written exactly once, by its own dialog state; additional_info is
\* written at most once, by the confirmation state; commute_time,
\* transport_priority, deal_breakers and special_requirements have no dialog
\* state, are never written and stay empty.
C5_TwelveWrittenOnce ==
    /\ \A i \in 1..12 :
           /\ writes[CollectedFields[i]] = IF Ord(state) > Ord(CollectingStates[i]) THEN 1 ELSE 0
           /\ writes[CollectedFields[i]] = 0 => preferences[CollectedFields[i]] = <<>>
    /\ writes["additional_info"] <= IF state = COMPLETE THEN 1 ELSE 0
    /\ writes["additional_info"] = 0 => preferences["additional_info"] = <<>>
    /\ \A f \in UnaskedFields : writes[f] = 0 /\ preferences[f] = <<>>

C5_Witness ==
    /\ state = COMPLETE
    /\ \A i \in 1..12 : writes[CollectedFields[i]] = 1
    /\ writes["additional_info"] = 1
    /\ preferences["must_have_features"] = <<"F","l","a","t">>

----------------------------------------------------------------------------
(* C6 *)

\* C6: a process_response call made in the i-th of the twelve collecting
\* states sets the i-th collected field to the input and changes no other
\* field of the record.
C6_OneFieldPerTurn ==
    [][ (Responded /\ state \notin { CONFIRMATION, COMPLETE }) =>
            \E i \in 1..12 :
                /\ state = CollectingStates[i]
                /\ preferences' = [ preferences EXCEPT ![CollectedFields[i]] = LastInput ]
                /\ writes' = [ writes EXCEPT ![CollectedFields[i]] = @ + 1 ] ]_vars

C6_Witness ==
    /\ state = COMMUNITY
    /\ preferences["amenities"] = <<"F","l","a","t">>
    /\ preferences["transport_preference"] = <<>>
    /\ preferences["community_type"] = <<>>

----------------------------------------------------------------------------
(* C7 *)

SummaryLabels ==
    << "* Property type: ", "* Budget: ", "* Bedrooms: ", "* Bathrooms: ",
       "* Outdoor space: ", "* Preferred areas: ", "* Commute: ", "* Transport: ",
       "* Amenities: ", "* Community type: ", "* Features: ", "* Top priorities: " >>

\* the lines of a text: the atoms between its line feeds
RECURSIVE SplitLines(_)
SplitLines(text) ==
    IF \A k \in DOMAIN text : text[k] # "\n"
    THEN << text >>
    ELSE LET n == CHOOSE k \in DOMAIN text :
                      text[k] = "\n" /\ \A j \in 1..(k - 1) : text[j] # "\n"
         IN  << SubSeq(text, 1, n - 1) >> \o SplitLines(SubSeq(text, n + 1, Len(text)))

\* how many of the first i collected fields are populated
RECURSIVE Populated(_, _)
Populated(p, i) ==
    IF i = 0 THEN 0
    ELSE Populated(p, i - 1) + (IF p[CollectedFields[i]] # <<>> THEN 1 ELSE 0)

\* C7: the text returned on leaving the priorities state has, between its
\* heading and its closing question, one line per populated collected field
\* and none for an empty one, each line made of the field's label and value,
\* the lines in the order of collection.
C7_SummaryLines ==
    (state = CONFIRMATION /\ outcome.kind = "return") =>
        LET lines == SplitLines(outcome.value)
        IN  /\ Len(lines) = Populated(preferences, 12) + 4
            /\ lines[1] = << "Let me confirm what I've understood about your preferences:" >>
            /\ lines[2] = <<>>
            /\ lines[Len(lines) - 1] = <<>>
            /\ \A i \in 1..12 :
                   preferences[CollectedFields[i]] # <<>> =>
                       lines[2 + Populated(preferences, i)]
                           = << SummaryLabels[i] >> \o preferences[CollectedFields[i]]

C7_Witness ==
    /\ state = CONFIRMATION
    /\ outcome.kind = "return"
    /\ preferences["property_type"] = <<>>
    /\ preferences["budget_range"] # <<>>
    /\ preferences["amenities"] = <<>>
    /\ preferences["top_priorities"] # <<>>

----------------------------------------------------------------------------
(* C8 *)

\* the state a turn leads to, whatever the answer
AfterTurn(st) ==
    IF st = COMPLETE THEN COMPLETE
    ELSE IF st = CONFIRMATION THEN COMPLETE
    ELSE IF st = PRIORITIES THEN CONFIRMATION
    ELSE CHOOSE nxt \in { CollectingStates[i] : i \in 2..12 } :
             \E i \in 1..11 : CollectingStates[i] = st /\ CollectingStates[i + 1] = nxt

\* C8: process_response accepts the empty string in every state; every call
\* returns instead of raising and leads to the state the turn would lead to
\* with any other answer; an empty answer leaves the field of the turn empty.
C8_BlankAccepted ==
    /\ [](Len(conversation_history) < 2 * MaxTurns => ENABLED process_response(<<>>))
    /\ [][ Responded =>
              /\ outcome'.kind = "return"
              /\ state' = AfterTurn(state)
              /\ (LastInput = <<>> /\ state # COMPLETE) =>
                     \E i \in 1..13 :
                         /\ Ord(state) = Ord((CollectingStates \o << CONFIRMATION >>)[i])
                         /\ preferences'[TargetedFields[i]] = <<>> ]_vars

C8_Witness ==
    /\ state = COMPLETE
    /\ Len(conversation_history) = 26
    /\ \A i \in 1..13 : SubmittedAnswer(i) = <<>>
    /\ \A i \in 1..13 : preferences[TargetedFields[i]] = <<>> /\ writes[TargetedFields[i]] = 1

----------------------------------------------------------------------------
(* C9 *)

\* C9: generate_semantic_query called in a state other than complete raises
\* the invalid-state error without invoking the text-generation chain and
\* leaves state and record as they were; called in the complete state it
\* does not raise that error.  The chain is only ever invoked in complete.
C9_GuardedByState ==
    /\ [](llm_called => state = COMPLETE)
    /\ [][ generate_semantic_query =>
              IF state # COMPLETE
              THEN /\ outcome' = Raised(ValueError)
                   /\ ~llm_called'
                   /\ state' = state
                   /\ preferences' = preferences
              ELSE outcome' # Raised(ValueError) ]_vars

C9_Witness ==
    /\ state = AREAS
    /\ outcome = Raised(ValueError)
    /\ ~llm_called
    /\ preferences["outdoor_space"] = <<"F","l","a","t">>

----------------------------------------------------------------------------
(* C10 *)

\* C10: when the text-generation chain fails inside generate_semantic_query
\* the call raises that failure, the state is still complete and the record
\* is as it was before the call, and a further call can succeed.
C10_FailureLeavesDialog ==
    /\ [](outcome = Raised(LLMError) => state = COMPLETE /\ ENABLED GenerateReturns)
    /\ [][ GenerateFails =>
              /\ outcome' = Raised(LLMError)
              /\ state' = COMPLETE
              /\ preferences' = preferences
              /\ conversation_history' = conversation_history ]_vars

C10_Witness ==
    /\ state = COMPLETE
    /\ outcome = Raised(LLMError)
    /\ llm_called
    /\ preferences["top_priorities"] = <<"F","l","a","t">>
    /\ preferences["additional_info"] = <<"N","o">>

----------------------------------------------------------------------------
(* C11 *)

\* C11: while no load or ingest has reported success on the store object, a
\* semantic_search call fails with the not-initialized error.
C11_SearchBeforeLoadRaises ==
    (store_call.op = "semantic_search" /\ ~loaded_ok) =>
        outcome = Raised(NotInitializedError)

----------------------------------------------------------------------------
(* C12 *)

\* a step of setup_vectorstore: the call record names it and the corpus file,
\* which only WriteCorpus changes, is as it was
SetupStep == store_call'.op = "setup_vectorstore" /\ corpus' = corpus

\* what every call on the store changes when it changes anything
callVars == <<store_call, outcome>>

\* the call returned the boolean
ReturnedBool(o, b) == o.kind = "return" /\ o.value = b

----------------------------------------------------------------------------
(* C13 *)

----------------------------------------------------------------------------
(* C14 *)

\* the place of a result's document in the collection
InsertionIndex(result) ==
    CHOOSE n \in DOMAIN collection : collection[n].metadata.id = result.metadata.id

\* C14: semantic_search with k on an initialized store returns at most k
\* results, and without a filter exactly k when the collection holds at least
\* k documents (all of them otherwise); every result carries its document's
\* distance as similarity_score; the results are in ascending distance, and
\* results of equal distance are in insertion order.
C14_TopKSortedStable ==
    (store_call.op = "semantic_search" /\ outcome.kind = "return") =>
        LET results == outcome.value
            k       == store_call.k
        IN  /\ Len(results) <= k
            /\ ~Truthy(store_call.filter_dict) =>
                   Len(results) = IF Len(collection) >= k THEN k ELSE Len(collection)
            /\ \A i \in DOMAIN results :
                   /\ "similarity_score" \in DOMAIN results[i]
                   /\ results[i].similarity_score = distance[results[i].content]
                   /\ collection[InsertionIndex(results[i])].page_content = results[i].content
            /\ \A i \in DOMAIN results : \A j \in DOMAIN results :
                   i < j =>
                       /\ results[i].similarity_score <= results[j].similarity_score
                       /\ results[i].similarity_score = results[j].similarity_score =>
                              InsertionIndex(results[i]) < InsertionIndex(results[j])

C14_Witness ==
    /\ store_call.op = "semantic_search"
    /\ store_call.k = 3
    /\ ~Truthy(store_call.filter_dict)
    /\ outcome.kind = "return"
    /\ Len(collection) >= 3
    /\ Len(outcome.value) = 3
    /\ outcome.value[1].similarity_score = outcome.value[2].similarity_score
    /\ outcome.value[2].similarity_score < outcome.value[3].similarity_score

----------------------------------------------------------------------------
(* C15 *)

\* the documents of the collection in the category
InCategory(category) ==
    SelectSeq(collection, LAMBDA doc : doc.metadata.category = category)

\* C15: semantic_search with a filter on one category returns only documents
\* of that category, for every k, and as many of them as k allows: the k
\* nearest are taken among the documents of the category.
C15_FilterBeforeTopK ==
    (store_call.op = "semantic_search" /\ outcome.kind = "return") =>
        \A category \in { "luxury_central", "family_suburban" } :
            store_call.filter_dict = FilterDict(FALSE, { << "category", category >> }) =>
                /\ \A i \in DOMAIN outcome.value :
                       outcome.value[i].metadata.category = category
                /\ Len(outcome.value) =
                       IF Len(InCategory(category)) >= store_call.k
                       THEN store_call.k
                       ELSE Len(InCategory(category))

\* a luxury_central search that leaves out a nearer family_suburban document
C15_Witness ==
    /\ store_call.op = "semantic_search"
    /\ store_call.filter_dict = FilterDict(FALSE, { << "category", "luxury_central" >> })
    /\ outcome.kind = "return"
    /\ Len(outcome.value) = 2
    /\ outcome.value[1].similarity_score = 1
    /\ \E n \in DOMAIN collection :
           /\ collection[n].metadata.category = "family_suburban"
           /\ distance[collection[n].page_content] = 0

----------------------------------------------------------------------------
(* C16 *)

\* personalize_listings has returned
Personalized == personalize_call.op = "personalize_listings"

\* C16: after personalize_listings, every result whose rewrite raised has a
\* listing whose personalized description is the result's original content
\* and whose highlight list is empty, and every other result, before or after
\* it, has its rewritten description: the call returned a full list.
C16_RewriteFailureFallsBack ==
    Personalized =>
        /\ Len(personalized_listings) = Len(search_results)
        /\ \A i \in DOMAIN search_results :
               IF i \in personalize_call.failed
               THEN /\ personalized_listings[i].personalized_description
                           = search_results[i].content
                    /\ personalized_listings[i].preference_highlights = <<>>
               ELSE personalized_listings[i].personalized_description
                        = << "Tailored for you: " >> \o search_results[i].content

\* the first rewrite raised on a listing that has highlights, the second
\* result was still rewritten
C16_Witness ==
    /\ Personalized
    /\ Len(search_results) = 2
    /\ personalize_call.failed = { 1 }
    /\ _identify_preference_highlights(search_results[1].content, preferences) # <<>>
    /\ personalized_listings[1].preference_highlights = <<>>
    /\ personalized_listings[2].preference_highlights # <<>>

----------------------------------------------------------------------------
(* C17 *)

\* C17: personalize_listings returns one listing per search result, in the
\* order of the search results, whichever rewrites raised; the i-th listing
\* has the i-th result's content, similarity score, category and metadata.
C17_OnePerResultInOrder ==
    Personalized =>
        /\ Len(personalized_listings) = Len(search_results)
        /\ \A i \in DOMAIN search_results :
               /\ personalized_listings[i].original_content = search_results[i].content
               /\ personalized_listings[i].similarity_score
                      = search_results[i].similarity_score
               /\ personalized_listings[i].category = search_results[i].metadata.category
               /\ personalized_listings[i].metadata = search_results[i].metadata

C17_Witness ==
    /\ Personalized
    /\ Len(search_results) = 2
    /\ personalize_call.failed = { 1 }
    /\ search_results[1].content # search_results[2].content
    /\ search_results[1].similarity_score < search_results[2].similarity_score
    /\ search_results[1].metadata.category # search_results[2].metadata.category
    /\ personalized_listings[2].original_content = search_results[2].content

----------------------------------------------------------------------------
(* C19 *)

\* the six rules in their order: the label each appends and the field it reads
RuleLabels ==
    << PropertyTypeLabel, BedroomLabel, OutdoorLabel,
       LocationLabel, TransportLabel, AmenitiesLabel >>

RuleFields ==
    << "property_type", "bedrooms", "outdoor_space",
       "preferred_areas", "transport_preference", "amenities" >>

\* the rule a label comes from
RuleOf(label) == CHOOSE r \in DOMAIN RuleLabels : RuleLabels[r] = Head(label)

\* the preferences with every field but the rule's left empty
OnlyField(prefs, r) ==
    [ f \in Fields |-> IF f = RuleFields[r] THEN prefs[f] ELSE <<>> ]

\* C19: for every listing whose rewrite did not raise, the highlight list has
\* at most six labels, in the order of the six rules; a rule's label is in the
\* list exactly when the rule succeeds on its own (every other field empty),
\* and then once and as the rule alone produces it; a rule whose field is
\* empty has no label in the list.
C19_RulesIndependent ==
    Personalized =>
        \A i \in DOMAIN search_results :
            i \notin personalize_call.failed =>
                LET highlights == personalized_listings[i].preference_highlights
                    content    == search_results[i].content
                IN  /\ Len(highlights) <= Len(RuleLabels)
                    /\ \A a \in DOMAIN highlights : \A b \in DOMAIN highlights :
                           a < b => RuleOf(highlights[a]) < RuleOf(highlights[b])
                    /\ \A r \in DOMAIN RuleLabels :
                           /\ SelectSeq(highlights, LAMBDA label : RuleOf(label) = r)
                                  = _identify_preference_highlights(content,
                                        OnlyField(preferences, r))
                           /\ preferences[RuleFields[r]] = <<>> =>
                                  \A a \in DOMAIN highlights : RuleOf(highlights[a]) # r

\* one listing with five labels, while the area rule, whose field is stated,
\* fails on it and succeeds on the other listing
C19_Witness ==
    /\ Personalized
    /\ personalize_call.failed = {}
    /\ Len(search_results) = 2
    /\ Len(personalized_listings[1].preference_highlights) = 5
    /\ \A a \in 1..5 :
           RuleOf(personalized_listings[1].preference_highlights[a]) # 4
    /\ preferences.preferred_areas # <<>>
    /\ Len(personalized_listings[2].preference_highlights) = 1
    /\ RuleOf(personalized_listings[2].preference_highlights[1]) = 4

----------------------------------------------------------------------------
(* C20 *)

\* the negative outdoor-space answers among OutdoorAnswers
NegativeOutdoorAnswers ==
    { << "N","o" >>, << "N","o"," ","t","h","a","n","k","s" >> }

HasOutdoorHighlight(listing) ==
    \E a \in DOMAIN listing.preference_highlights :
        listing.preference_highlights[a] = << OutdoorLabel >>

\* C20: a listing has the outdoor-space highlight only if the outdoor_space
\* preference is stated, is not a negative answer, and the content contains
\* one of the outdoor keywords in any case; for a negative answer no listing
\* has the highlight.
C20_NoOutdoorHighlightOnNegative ==
    Personalized =>
        \A i \in DOMAIN personalized_listings :
            HasOutdoorHighlight(personalized_listings[i]) =>
                /\ preferences.outdoor_space # <<>>
                /\ preferences.outdoor_space \notin NegativeOutdoorAnswers
                /\ AnyKeyword(outdoor_keywords, lower(search_results[i].content))

----------------------------------------------------------------------------
(* C22 *)

----------------------------------------------------------------------------
(* C26 *)

\* C26: in every state reachable by process_response, generate_semantic_query
\* and reset calls the conversation state is a declared state other than
\* PROPERTY_TYPE, and a process_response call made in greeting writes
\* property_type and moves to the budget state.
C26_PropertyTypeUnreachable ==
    /\ [](/\ state # PROPERTY_TYPE
          /\ \E i \in DOMAIN ConversationState : ConversationState[i] = state)
    /\ [][ (state = GREETING /\ Responded) =>
              /\ state' = BUDGET
              /\ preferences'["property_type"] = LastInput ]_vars

C26_Witness ==
    /\ state = BUDGET
    /\ Len(conversation_history) = 2
    /\ preferences["property_type"] = <<"F","l","a","t">>
    /\ SubmittedAnswer(1) = <<"F","l","a","t">>

----------------------------------------------------------------------------
(* C27 *)

\* the step is one reset call: the only call that returns None
ResetStep == outcome' = Returned(None)

\* C27: a reset call made in any reachable state leaves the state greeting,
\* every field of the record empty and the history empty, which is the
\* configuration of a freshly constructed collector, so that the
\* process_response calls that follow act as on a fresh collector.
C27_ResetRestoresInitial ==
    [][ ResetStep =>
            /\ state' = GREETING
            /\ preferences' = BuyerPreferences
            /\ \A f \in Fields : preferences'[f] = <<>>
            /\ conversation_history' = <<>>
            /\ \A user_input \in Answers(GREETING) :
                   Dispatch(state', preferences', user_input)
                       = Dispatch(GREETING, BuyerPreferences, user_input) ]_vars

\* a complete interview with a clarification stored, on which reset can act
C27_Witness ==
    /\ state = COMPLETE
    /\ Len(conversation_history) = 26
    /\ preferences["additional_info"] = <<"N","o">>
    /\ ENABLED (reset /\ UNCHANGED <<storeVars, personalizerVars>>)

----------------------------------------------------------------------------
(* C25 *)

\* number of process_response calls made since construction
Calls == Len(conversation_history) \div 2

\* C25: whatever the inputs, is_complete() is false after each of the first
\* 12 process_response calls and true after the 13th and after every later
\* call, and the loop that feeds inputs until is_complete() gets there.
C25_CompleteAfterThirteen ==
    /\ [](is_complete <=> Calls >= 13)
    /\ <>is_complete

C25_Witness ==
    /\ is_complete
    /\ Calls = 14
    /\ SubmittedAnswer(13) = <<"N","o">>
    /\ SubmittedAnswer(1) = << >>

----------------------------------------------------------------------------
(* C24 *)

\* the listing bodies of the corpus file, one per (category, listing) pairing
CorpusListings == load_listings_from_json(corpus, 0).value

\* C24: after a setup_vectorstore call with the forced-rebuild flag that
\* succeeds over a populated collection, the collection holds one document
\* per listing body of the corpus, so as many documents as the corpus has
\* listing bodies, and none of the documents it held before the call.
C24_RebuildReplacesCollection ==
    [][ ( /\ SetupStep
          /\ store_call'.force_rebuild
          /\ Len(collection) > 0
          /\ ReturnedBool(outcome', TRUE) ) =>
            /\ Len(collection') = Len(CorpusListings)
            /\ \A n \in DOMAIN CorpusListings :
                   collection'[n].page_content = CorpusListings[n].content
            /\ \A m \in DOMAIN collection' : \A n \in DOMAIN collection :
                   collection'[m].metadata.id # collection[n].metadata.id ]_callVars

----------------------------------------------------------------------------
(* C21 *)

\* the listing has a highlight that starts with the label
HasHighlight(listing, label) ==
    \E a \in DOMAIN listing.preference_highlights :
        Head(listing.preference_highlights[a]) = label

\* C21: in the persona run whose answers are "flat", a budget, "2 bedrooms",
\* "1 bathroom", "balcony", "anywhere", "central London", "tube", "cafes",
\* "trendy", "none", "transport and price", "yes", the collector is complete
\* once the 13 answers are in, and every listing personalized without a
\* rewrite failure whose content is "A bright 2 bedroom flat near the tube
\* with a balcony" has the bedroom highlight with the bedroom answer and the
\* outdoor-space highlight.
C21_ScenarioHighlights ==
    /\ Calls = 13 => is_complete
    /\ Personalized =>
           /\ is_complete
           /\ \E budget \in PersonaBudgets :
                  \A n \in 1..13 : SubmittedAnswer(n) = PersonaResponses(budget)[n]
           /\ \A i \in DOMAIN personalized_listings :
                  ( /\ i \notin personalize_call.failed
                    /\ personalized_listings[i].original_content = ListingA ) =>
                      /\ HasHighlight(personalized_listings[i], BedroomLabel)
                      /\ HasHighlight(personalized_listings[i], OutdoorLabel)
                      /\ \E a \in DOMAIN personalized_listings[i].preference_highlights :
                             personalized_listings[i].preference_highlights[a]
                                 = << BedroomLabel >> \o << "2"," ","b","e","d","r","o","o","m","s" >>

C21_Witness ==
    /\ Personalized
    /\ is_complete
    /\ Calls = 13
    /\ SubmittedAnswer(13) = << "y","e","s" >>
    /\ personalize_call.failed = {}
    /\ Len(personalized_listings) = 1
    /\ personalized_listings[1].original_content = ListingA
    /\ HasHighlight(personalized_listings[1], OutdoorLabel)

----------------------------------------------------------------------------
(* C23 *)

\* the step is a generate_semantic_query call that invoked the chain
QueryStep == llm_called' /\ ~llm_called

\* the step is a personalize_listings call, highlight extraction included
PersonalizeStep ==
    personalize_call'.op = "personalize_listings" /\ personalize_call.op = "__init__"

\* what tells the calls of C23 and what they must leave alone
frameVars == <<llm_called, personalize_call, preferences>>

\* C23: a generate_semantic_query call, whether the chain answers or raises,
\* and a personalize_listings call with its highlight extraction, whichever
\* rewrites raise, leave every field of the record as it was.
C23_DownstreamReadOnly ==
    [][ (QueryStep \/ PersonalizeStep) =>
            \A f \in Fields : preferences'[f] = preferences[f] ]_frameVars

\* a query was generated and a listing's rewrite raised, the record is intact
C23_Witness ==
    /\ Personalized
    /\ llm_called
    /\ personalize_call.failed = { 1 }
    /\ preferences["outdoor_space"] = << "b","a","l","c","o","n","y" >>
    /\ preferences["top_priorities"] # <<>>

====
